---- MODULE Spec2Model ----
(***************************************************************************)
(* The name registry program (instant_folio): four kinds of account        *)
(* buffers (name, reverse address, pending update, config), the borsh     *)
(* encoding the Pack impls use on them, the thirteen instruction handlers  *)
(* of Processor, and the host rule that an instruction's writes are kept   *)
(* only when it returns Ok.                                                *)
(*                                                                         *)
(* Account data is modelled as the byte sequence the program sees.  A      *)
(* Pubkey k is the 32 bytes <<k, 0, ..., 0>>; Pubkey::default() is k = 0.  *)
(* The account list of every instruction is taken to be complete and of    *)
(* the right kinds (next_account_info succeeds, each buffer was allocated  *)
(* with the LEN of its kind); which slot of a kind is passed is the        *)
(* caller's choice.                                                        *)
(***************************************************************************)
EXTENDS Integers, Sequences, FiniteSets, TLC

\* ------------------------------------------------------------ bounds
NumKeys == 2        \* signing addresses 1..NumKeys
NumNameSlots == 2   \* allocated name account buffers
NumAddrSlots == 2   \* allocated address (reverse) account buffers
NumPendSlots == 1   \* allocated pending update account buffers
MaxFee == 1         \* fees 0..MaxFee
MaxTime == 1        \* clock values 0..MaxTime
U64_MAX == 1        \* largest lamport amount (u64::MAX, width scaled down)
InitLamports == 0   \* lamports of every signing address at the start
MaxRent == 2        \* the config account is allocated with 0..MaxRent lamports
MaxStrLen == 2      \* strings of 0..MaxStrLen bytes given to validate_name

Keys == 1..NumKeys
AnyKey == 0..NumKeys
NameSlots == 1..NumNameSlots
AddrSlots == 1..NumAddrSlots
PendSlots == 1..NumPendSlots
Fees == 0..MaxFee

\* ------------------------------------------------------------ bytes
Zeros(n) == [i \in 1..n |-> 0]

RECURSIVE to_le_bytes(_, _)
to_le_bytes(v, n) ==
    IF n = 0 THEN <<>> ELSE <<v % 256>> \o to_le_bytes(v \div 256, n - 1)

RECURSIVE from_le_bytes(_)
from_le_bytes(b) ==
    IF b = <<>> THEN 0 ELSE b[1] + 256 * from_le_bytes(Tail(b))

Pubkey(k) == <<k>> \o Zeros(31)
PubkeyOf(b) == b[1]

\* str::from_utf8 on the one- and two-byte forms (the only ones the model's
\* names contain); any other lead byte is rejected.
RECURSIVE from_utf8_ok(_)
from_utf8_ok(b) ==
    IF b = <<>> THEN TRUE
    ELSE IF b[1] < 128 THEN from_utf8_ok(Tail(b))
    ELSE IF b[1] >= 194 /\ b[1] <= 223 /\ Len(b) >= 2 /\ b[2] >= 128 /\ b[2] <= 191
         THEN from_utf8_ok(Tail(Tail(b)))
    ELSE FALSE

\* str::chars: the code points of a valid string
RECURSIVE chars(_)
chars(b) ==
    IF b = <<>> THEN <<>>
    ELSE IF b[1] < 128 THEN <<b[1]>> \o chars(Tail(b))
    ELSE <<(b[1] - 192) * 64 + (b[2] - 128)>> \o chars(Tail(Tail(b)))

\* ------------------------------------------------------------ state.rs
NameAccount_default ==
    [is_initialized |-> FALSE, owner |-> 0, name |-> <<>>, address |-> 0,
     cooldown_until |-> 0]
AddressAccount_default == [is_initialized |-> FALSE, name |-> <<>>]
PendingUpdateAccount_default == [is_initialized |-> FALSE, new_address |-> 0]
ProgramConfig_default ==
    [is_initialized |-> FALSE, owner |-> 0, pending_owner |-> 0,
     registration_fee |-> 0]

NameAccount_LEN == 1 + 32 + 32 + 32 + 8 + 4
AddressAccount_LEN == 1 + 4 + 32
PendingUpdateAccount_LEN == 1 + 32
ProgramConfig_LEN == 1 + 32 + 32 + 8

ser_bool(b) == <<IF b THEN 1 ELSE 0>>
ser_string(s) == to_le_bytes(Len(s), 4) \o s

\* BorshSerialize::try_to_vec: the fields in declaration order; a String is
\* its u32 length followed by exactly its bytes (no padding).
NameAccount_try_to_vec(r) ==
    ser_bool(r.is_initialized) \o Pubkey(r.owner) \o ser_string(r.name)
        \o Pubkey(r.address) \o to_le_bytes(r.cooldown_until, 8)
AddressAccount_try_to_vec(r) == ser_bool(r.is_initialized) \o ser_string(r.name)
PendingUpdateAccount_try_to_vec(r) ==
    ser_bool(r.is_initialized) \o Pubkey(r.new_address)
ProgramConfig_try_to_vec(r) ==
    ser_bool(r.is_initialized) \o Pubkey(r.owner) \o Pubkey(r.pending_owner)
        \o to_le_bytes(r.registration_fee, 8)

Res(e, v) == [err |-> e, v |-> v]

\* BorshDeserialize::try_from_slice: reads the fields in order and fails when
\* bytes run out, a bool is not 0/1, a string is not UTF-8, or bytes are left
\* unread once the last field is read.
NameAccount_unpack_from_slice(src) ==
    IF Len(src) < 37 \/ src[1] > 1 THEN Res("InvalidAccountData", NameAccount_default)
    ELSE LET n == from_le_bytes(SubSeq(src, 34, 37)) IN
         IF Len(src) < 77 + n \/ ~from_utf8_ok(SubSeq(src, 38, 37 + n))
         THEN Res("InvalidAccountData", NameAccount_default)
         ELSE IF Len(src) # 77 + n
         THEN Res("InvalidAccountData", NameAccount_default)
         ELSE Res("Ok", [is_initialized |-> src[1] = 1,
                         owner |-> PubkeyOf(SubSeq(src, 2, 33)),
                         name |-> SubSeq(src, 38, 37 + n),
                         address |-> PubkeyOf(SubSeq(src, 38 + n, 69 + n)),
                         cooldown_until |-> from_le_bytes(SubSeq(src, 70 + n, 77 + n))])

AddressAccount_unpack_from_slice(src) ==
    IF Len(src) < 5 \/ src[1] > 1 THEN Res("InvalidAccountData", AddressAccount_default)
    ELSE LET n == from_le_bytes(SubSeq(src, 2, 5)) IN
         IF Len(src) < 5 + n \/ ~from_utf8_ok(SubSeq(src, 6, 5 + n))
         THEN Res("InvalidAccountData", AddressAccount_default)
         ELSE IF Len(src) # 5 + n
         THEN Res("InvalidAccountData", AddressAccount_default)
         ELSE Res("Ok", [is_initialized |-> src[1] = 1, name |-> SubSeq(src, 6, 5 + n)])

PendingUpdateAccount_unpack_from_slice(src) ==
    IF Len(src) < 33 \/ src[1] > 1
    THEN Res("InvalidAccountData", PendingUpdateAccount_default)
    ELSE IF Len(src) # 33 THEN Res("InvalidAccountData", PendingUpdateAccount_default)
    ELSE Res("Ok", [is_initialized |-> src[1] = 1,
                    new_address |-> PubkeyOf(SubSeq(src, 2, 33))])

ProgramConfig_unpack_from_slice(src) ==
    IF Len(src) < 73 \/ src[1] > 1 THEN Res("InvalidAccountData", ProgramConfig_default)
    ELSE IF Len(src) # 73 THEN Res("InvalidAccountData", ProgramConfig_default)
    ELSE Res("Ok", [is_initialized |-> src[1] = 1,
                    owner |-> PubkeyOf(SubSeq(src, 2, 33)),
                    pending_owner |-> PubkeyOf(SubSeq(src, 34, 65)),
                    registration_fee |-> from_le_bytes(SubSeq(src, 66, 73))])

\* Pack::unpack_unchecked: the length check, then unpack_from_slice
NameAccount_unpack_unchecked(input) ==
    IF Len(input) # NameAccount_LEN THEN Res("InvalidAccountData", NameAccount_default)
    ELSE NameAccount_unpack_from_slice(input)
AddressAccount_unpack_unchecked(input) ==
    IF Len(input) # AddressAccount_LEN
    THEN Res("InvalidAccountData", AddressAccount_default)
    ELSE AddressAccount_unpack_from_slice(input)
PendingUpdateAccount_unpack_unchecked(input) ==
    IF Len(input) # PendingUpdateAccount_LEN
    THEN Res("InvalidAccountData", PendingUpdateAccount_default)
    ELSE PendingUpdateAccount_unpack_from_slice(input)
ProgramConfig_unpack_unchecked(input) ==
    IF Len(input) # ProgramConfig_LEN
    THEN Res("InvalidAccountData", ProgramConfig_default)
    ELSE ProgramConfig_unpack_from_slice(input)

\* (mutant of unpack_checked: the IsInitialized check is left out)
unpack_checked_any(r) == r

\* Pack::unpack: unpack_unchecked, then the IsInitialized check
unpack_checked(r) ==
    IF r.err # "Ok" THEN r
    ELSE IF r.v.is_initialized THEN r
    ELSE Res("UninitializedAccount", r.v)

NameAccount_unpack(input) == unpack_checked(NameAccount_unpack_unchecked(input))
AddressAccount_unpack(input) == unpack_checked(AddressAccount_unpack_unchecked(input))
PendingUpdateAccount_unpack(input) ==
    unpack_checked(PendingUpdateAccount_unpack_unchecked(input))
ProgramConfig_unpack(input) == unpack_checked(ProgramConfig_unpack_unchecked(input))

\* pack_into_slice: dst[..data.len()].copy_from_slice(&data); the bytes of
\* dst past the encoding keep what they held.  The slice panics when the
\* encoding is longer than dst.
pack_into_slice(data, dst) ==
    IF Len(data) > Len(dst) THEN Res("Panic", dst)
    ELSE Res("Ok", [i \in 1..Len(dst) |-> IF i <= Len(data) THEN data[i] ELSE dst[i]])

\* Pack::pack: the length check, then pack_into_slice
NameAccount_pack(src, dst) ==
    IF Len(dst) # NameAccount_LEN THEN Res("InvalidAccountData", dst)
    ELSE pack_into_slice(NameAccount_try_to_vec(src), dst)
AddressAccount_pack(src, dst) ==
    IF Len(dst) # AddressAccount_LEN THEN Res("InvalidAccountData", dst)
    ELSE pack_into_slice(AddressAccount_try_to_vec(src), dst)
PendingUpdateAccount_pack(src, dst) ==
    IF Len(dst) # PendingUpdateAccount_LEN THEN Res("InvalidAccountData", dst)
    ELSE pack_into_slice(PendingUpdateAccount_try_to_vec(src), dst)
ProgramConfig_pack(src, dst) ==
    IF Len(dst) # ProgramConfig_LEN THEN Res("InvalidAccountData", dst)
    ELSE pack_into_slice(ProgramConfig_try_to_vec(src), dst)

\* ------------------------------------------------------------ validation.rs
MAX_NAME_LENGTH == 32

\* char::is_alphanumeric (Alphabetic or Numeric) on the code points below 256
is_alphanumeric(c) ==
    \/ (c >= 48 /\ c <= 57) \/ (c >= 65 /\ c <= 90) \/ (c >= 97 /\ c <= 122)
    \/ c \in {170, 178, 179, 181, 185, 186, 188, 189, 190}
    \/ (c >= 192 /\ c <= 214) \/ (c >= 216 /\ c <= 246) \/ (c >= 248 /\ c <= 255)

\* name.len() is the length in bytes; chars() are the code points
validate_name(name) ==
    IF name = <<>> THEN "InvalidNameFormat"
    ELSE IF Len(name) > MAX_NAME_LENGTH THEN "InvalidNameFormat"
    ELSE IF ~(\A cs \in {chars(name)} :
                 \A i \in 1..Len(cs) : is_alphanumeric(cs[i]) \/ cs[i] = 45)
         THEN "InvalidNameFormat"
    ELSE "Ok"

validate_address(address) == IF address = 0 THEN "InvalidAddress" ELSE "Ok"

validate_cooldown(cooldown_until, unix_timestamp) ==
    IF unix_timestamp < cooldown_until THEN "CooldownNotOver" ELSE "Ok"

get_cooldown_until(unix_timestamp) == unix_timestamp + 86400

validate_owner(owner, signer) == IF owner # signer THEN "NotNameOwner" ELSE "Ok"

\* (mutant of validate_program_owner: any signer passes)
validate_program_owner_any(owner, signer) == "Ok"

validate_program_owner(owner, signer) ==
    IF owner # signer THEN "NotContractOwner" ELSE "Ok"

\* ------------------------------------------------------------ the accounts
VARIABLES
    nameSlot,        \* data of each name account
    addrSlot,        \* data of each address (reverse) account
    pendSlot,        \* data of each pending update account
    config,          \* data of the program config account
    lamports,        \* lamports of each signing address
    configLamports,  \* lamports held by the config account
    now              \* Clock::get()?.unix_timestamp

accounts == <<nameSlot, addrSlot, pendSlot, config, lamports, configLamports>>
vars == <<nameSlot, addrSlot, pendSlot, config, lamports, configLamports, now>>

\* The accounts as one value, the working state of a handler
World ==
    [name |-> nameSlot, addr |-> addrSlot, pend |-> pendSlot, config |-> config,
     lamports |-> lamports, configLamports |-> configLamports]

\* A handler's outcome: its ProgramResult, the accounts as its writes left
\* them, and the return data it set.
Out(e, w, d) == [err |-> e, w |-> w, data |-> d]

\* system_instruction::transfer invoked from the program: fails when the
\* payer holds less than the amount or the credit overflows.
transfer(w, from, amount) ==
    IF w.lamports[from] < amount THEN Out("InsufficientFunds", w, <<>>)
    ELSE IF w.configLamports + amount > U64_MAX THEN Out("ArithmeticOverflow", w, <<>>)
    ELSE Out("Ok", [w EXCEPT !.lamports[from] = @ - amount,
                              !.configLamports = @ + amount], <<>>)

\* ------------------------------------------------------------ processor.rs
\* (mutant of process_initialize: is_initialized is not looked at)
process_initialize_again(w, initializer, is_signer, registration_fee) ==
    IF ~is_signer THEN Out("MissingRequiredSignature", w, <<>>)
    ELSE LET c == ProgramConfig_unpack_unchecked(w.config) IN
    IF c.err # "Ok" THEN Out(c.err, w, <<>>)
    ELSE LET cfg == [is_initialized |-> TRUE, owner |-> initializer,
                     pending_owner |-> 0, registration_fee |-> registration_fee]
             p == ProgramConfig_pack(cfg, w.config) IN
    IF p.err # "Ok" THEN Out(p.err, w, <<>>)
    ELSE Out("Ok", [w EXCEPT !.config = p.v], <<>>)

process_initialize(w, initializer, is_signer, registration_fee) ==
    IF ~is_signer THEN Out("MissingRequiredSignature", w, <<>>)
    ELSE LET c == ProgramConfig_unpack_unchecked(w.config) IN
    IF c.err # "Ok" THEN Out(c.err, w, <<>>)
    ELSE IF c.v.is_initialized THEN Out("AlreadyInitialized", w, <<>>)
    ELSE LET cfg == [is_initialized |-> TRUE, owner |-> initializer,
                     pending_owner |-> 0, registration_fee |-> registration_fee]
             p == ProgramConfig_pack(cfg, w.config) IN
    IF p.err # "Ok" THEN Out(p.err, w, <<>>)
    ELSE Out("Ok", [w EXCEPT !.config = p.v], <<>>)

process_register_name(w, registrant, is_signer, na, aa, system_ok, name, unix_timestamp) ==
    IF ~is_signer THEN Out("MissingRequiredSignature", w, <<>>)
    ELSE IF ~system_ok THEN Out("IncorrectProgramId", w, <<>>)
    ELSE IF validate_name(name) # "Ok" THEN Out(validate_name(name), w, <<>>)
    ELSE LET c == ProgramConfig_unpack(w.config) IN
    IF c.err # "Ok" THEN Out(c.err, w, <<>>)
    ELSE LET n == NameAccount_unpack_unchecked(w.name[na]) IN
    IF n.err # "Ok" THEN Out(n.err, w, <<>>)
    ELSE IF n.v.is_initialized THEN Out("NameTaken", w, <<>>)
    ELSE LET a == AddressAccount_unpack_unchecked(w.addr[aa]) IN
    IF a.err # "Ok" THEN Out(a.err, w, <<>>)
    ELSE IF a.v.is_initialized THEN Out("NameAlreadyRegistered", w, <<>>)
    ELSE LET t == transfer(w, registrant, c.v.registration_fee) IN
    IF t.err # "Ok" THEN t
    ELSE LET name_data == [n.v EXCEPT !.is_initialized = TRUE, !.owner = registrant,
                                      !.name = name, !.address = registrant,
                                      !.cooldown_until = unix_timestamp]
             address_data == [a.v EXCEPT !.is_initialized = TRUE, !.name = name]
             pn == NameAccount_pack(name_data, t.w.name[na]) IN
    IF pn.err # "Ok" THEN Out(pn.err, t.w, <<>>)
    ELSE LET w1 == [t.w EXCEPT !.name[na] = pn.v]
             pa == AddressAccount_pack(address_data, w1.addr[aa]) IN
    IF pa.err # "Ok" THEN Out(pa.err, w1, <<>>)
    ELSE Out("Ok", [w1 EXCEPT !.addr[aa] = pa.v], <<>>)

process_request_address_update(w, current_owner, is_signer, na, pa, new_address, unix_timestamp) ==
    IF ~is_signer THEN Out("MissingRequiredSignature", w, <<>>)
    ELSE IF validate_address(new_address) # "Ok"
    THEN Out(validate_address(new_address), w, <<>>)
    ELSE LET n == NameAccount_unpack(w.name[na]) IN
    IF n.err # "Ok" THEN Out(n.err, w, <<>>)
    ELSE IF validate_owner(n.v.owner, current_owner) # "Ok"
    THEN Out(validate_owner(n.v.owner, current_owner), w, <<>>)
    ELSE IF validate_cooldown(n.v.cooldown_until, unix_timestamp) # "Ok"
    THEN Out(validate_cooldown(n.v.cooldown_until, unix_timestamp), w, <<>>)
    ELSE LET u == PendingUpdateAccount_unpack_unchecked(w.pend[pa]) IN
    IF u.err # "Ok" THEN Out(u.err, w, <<>>)
    ELSE LET pending_update == [u.v EXCEPT !.is_initialized = TRUE,
                                           !.new_address = new_address]
             p == PendingUpdateAccount_pack(pending_update, w.pend[pa]) IN
    IF p.err # "Ok" THEN Out(p.err, w, <<>>)
    ELSE Out("Ok", [w EXCEPT !.pend[pa] = p.v], <<>>)

process_complete_address_update(w, new_owner, is_signer, na, aa, pa, unix_timestamp) ==
    IF ~is_signer THEN Out("MissingRequiredSignature", w, <<>>)
    ELSE LET u == PendingUpdateAccount_unpack(w.pend[pa]) IN
    IF u.err # "Ok" THEN Out(u.err, w, <<>>)
    ELSE IF ~u.v.is_initialized THEN Out("NoPendingUpdate", w, <<>>)
    ELSE IF u.v.new_address # new_owner THEN Out("NotPendingAddress", w, <<>>)
    ELSE LET n == NameAccount_unpack(w.name[na]) IN
    IF n.err # "Ok" THEN Out(n.err, w, <<>>)
    ELSE LET a == AddressAccount_unpack(w.addr[aa]) IN
    IF a.err # "Ok" THEN Out(a.err, w, <<>>)
    ELSE LET name_data == [n.v EXCEPT !.address = new_owner, !.owner = new_owner,
                                      !.cooldown_until = unix_timestamp]
             pn == NameAccount_pack(name_data, w.name[na]) IN
    IF pn.err # "Ok" THEN Out(pn.err, w, <<>>)
    ELSE LET w1 == [w EXCEPT !.name[na] = pn.v]
             pad == AddressAccount_pack(a.v, w1.addr[aa]) IN
    IF pad.err # "Ok" THEN Out(pad.err, w1, <<>>)
    ELSE LET w2 == [w1 EXCEPT !.addr[aa] = pad.v]
             u2 == PendingUpdateAccount_unpack(w2.pend[pa]) IN
    IF u2.err # "Ok" THEN Out(u2.err, w2, <<>>)
    ELSE LET cleared == [u2.v EXCEPT !.is_initialized = FALSE, !.new_address = 0]
             pp == PendingUpdateAccount_pack(cleared, w2.pend[pa]) IN
    IF pp.err # "Ok" THEN Out(pp.err, w2, <<>>)
    ELSE Out("Ok", [w2 EXCEPT !.pend[pa] = pp.v], <<>>)

process_rename_name(w, current_owner, is_signer, old, new, aa, new_name, unix_timestamp) ==
    IF ~is_signer THEN Out("MissingRequiredSignature", w, <<>>)
    ELSE IF validate_name(new_name) # "Ok" THEN Out(validate_name(new_name), w, <<>>)
    ELSE LET o == NameAccount_unpack(w.name[old]) IN
    IF o.err # "Ok" THEN Out(o.err, w, <<>>)
    ELSE IF validate_owner(o.v.owner, current_owner) # "Ok"
    THEN Out(validate_owner(o.v.owner, current_owner), w, <<>>)
    ELSE IF validate_cooldown(o.v.cooldown_until, unix_timestamp) # "Ok"
    THEN Out(validate_cooldown(o.v.cooldown_until, unix_timestamp), w, <<>>)
    ELSE LET n == NameAccount_unpack_unchecked(w.name[new]) IN
    IF n.err # "Ok" THEN Out(n.err, w, <<>>)
    ELSE IF n.v.is_initialized THEN Out("NameTaken", w, <<>>)
    ELSE LET a == AddressAccount_unpack(w.addr[aa]) IN
    IF a.err # "Ok" THEN Out(a.err, w, <<>>)
    ELSE LET new_name_data == [NameAccount_default EXCEPT
                                  !.is_initialized = TRUE, !.owner = current_owner,
                                  !.name = new_name, !.address = o.v.address,
                                  !.cooldown_until = unix_timestamp]
             address_data == [a.v EXCEPT !.name = new_name]
             o2 == NameAccount_unpack(w.name[old]) IN
    IF o2.err # "Ok" THEN Out(o2.err, w, <<>>)
    ELSE LET old_name_data == [o2.v EXCEPT !.is_initialized = FALSE, !.owner = 0,
                                           !.name = <<>>, !.address = 0,
                                           !.cooldown_until = 0]
             pn == NameAccount_pack(new_name_data, w.name[new]) IN
    IF pn.err # "Ok" THEN Out(pn.err, w, <<>>)
    ELSE LET w1 == [w EXCEPT !.name[new] = pn.v]
             pa == AddressAccount_pack(address_data, w1.addr[aa]) IN
    IF pa.err # "Ok" THEN Out(pa.err, w1, <<>>)
    ELSE LET w2 == [w1 EXCEPT !.addr[aa] = pa.v]
             po == NameAccount_pack(old_name_data, w2.name[old]) IN
    IF po.err # "Ok" THEN Out(po.err, w2, <<>>)
    ELSE Out("Ok", [w2 EXCEPT !.name[old] = po.v], <<>>)

\* (mutant of process_set_registration_fee: the caller's signature is not
\* required)
process_set_registration_fee_unsigned(w, owner, is_signer, new_fee) ==
    LET c == ProgramConfig_unpack(w.config) IN
    IF c.err # "Ok" THEN Out(c.err, w, <<>>)
    ELSE IF validate_program_owner(c.v.owner, owner) # "Ok"
    THEN Out(validate_program_owner(c.v.owner, owner), w, <<>>)
    ELSE LET p == ProgramConfig_pack([c.v EXCEPT !.registration_fee = new_fee],
                                     w.config) IN
    IF p.err # "Ok" THEN Out(p.err, w, <<>>)
    ELSE Out("Ok", [w EXCEPT !.config = p.v], <<>>)

process_set_registration_fee(w, owner, is_signer, new_fee) ==
    IF ~is_signer THEN Out("MissingRequiredSignature", w, <<>>)
    ELSE LET c == ProgramConfig_unpack(w.config) IN
    IF c.err # "Ok" THEN Out(c.err, w, <<>>)
    ELSE IF validate_program_owner(c.v.owner, owner) # "Ok"
    THEN Out(validate_program_owner(c.v.owner, owner), w, <<>>)
    ELSE LET p == ProgramConfig_pack([c.v EXCEPT !.registration_fee = new_fee],
                                     w.config) IN
    IF p.err # "Ok" THEN Out(p.err, w, <<>>)
    ELSE Out("Ok", [w EXCEPT !.config = p.v], <<>>)

\* (mutant of process_change_program_owner: the new owner is installed at
\* once, without an acceptance)
process_change_program_owner_direct(w, current_owner, is_signer, new_owner) ==
    IF ~is_signer THEN Out("MissingRequiredSignature", w, <<>>)
    ELSE IF validate_address(new_owner) # "Ok"
    THEN Out(validate_address(new_owner), w, <<>>)
    ELSE LET c == ProgramConfig_unpack(w.config) IN
    IF c.err # "Ok" THEN Out(c.err, w, <<>>)
    ELSE IF validate_program_owner(c.v.owner, current_owner) # "Ok"
    THEN Out(validate_program_owner(c.v.owner, current_owner), w, <<>>)
    ELSE LET p == ProgramConfig_pack([c.v EXCEPT !.owner = new_owner], w.config) IN
    IF p.err # "Ok" THEN Out(p.err, w, <<>>)
    ELSE Out("Ok", [w EXCEPT !.config = p.v], <<>>)

process_change_program_owner(w, current_owner, is_signer, new_owner) ==
    IF ~is_signer THEN Out("MissingRequiredSignature", w, <<>>)
    ELSE IF validate_address(new_owner) # "Ok"
    THEN Out(validate_address(new_owner), w, <<>>)
    ELSE LET c == ProgramConfig_unpack(w.config) IN
    IF c.err # "Ok" THEN Out(c.err, w, <<>>)
    ELSE IF validate_program_owner(c.v.owner, current_owner) # "Ok"
    THEN Out(validate_program_owner(c.v.owner, current_owner), w, <<>>)
    ELSE LET p == ProgramConfig_pack([c.v EXCEPT !.pending_owner = new_owner],
                                     w.config) IN
    IF p.err # "Ok" THEN Out(p.err, w, <<>>)
    ELSE Out("Ok", [w EXCEPT !.config = p.v], <<>>)

\* (mutant of process_accept_program_ownership: the signer is not compared
\* with pending_owner)
process_accept_program_ownership_any(w, pending_owner, is_signer) ==
    IF ~is_signer THEN Out("MissingRequiredSignature", w, <<>>)
    ELSE LET c == ProgramConfig_unpack(w.config) IN
    IF c.err # "Ok" THEN Out(c.err, w, <<>>)
    ELSE LET p == ProgramConfig_pack([c.v EXCEPT !.owner = pending_owner,
                                                 !.pending_owner = 0], w.config) IN
    IF p.err # "Ok" THEN Out(p.err, w, <<>>)
    ELSE Out("Ok", [w EXCEPT !.config = p.v], <<>>)

process_accept_program_ownership(w, pending_owner, is_signer) ==
    IF ~is_signer THEN Out("MissingRequiredSignature", w, <<>>)
    ELSE LET c == ProgramConfig_unpack(w.config) IN
    IF c.err # "Ok" THEN Out(c.err, w, <<>>)
    ELSE IF c.v.pending_owner # pending_owner
    THEN Out("NotPendingContractOwner", w, <<>>)
    ELSE LET p == ProgramConfig_pack([c.v EXCEPT !.owner = pending_owner,
                                                 !.pending_owner = 0], w.config) IN
    IF p.err # "Ok" THEN Out(p.err, w, <<>>)
    ELSE Out("Ok", [w EXCEPT !.config = p.v], <<>>)

process_resolve_address(w, na) ==
    LET n == NameAccount_unpack(w.name[na]) IN
    IF n.err # "Ok" THEN Out(n.err, w, <<>>)
    ELSE IF ~n.v.is_initialized THEN Out("NameNotFound", w, <<>>)
    ELSE Out("Ok", w, Pubkey(n.v.address))

process_get_contract_owner(w) ==
    LET c == ProgramConfig_unpack(w.config) IN
    IF c.err # "Ok" THEN Out(c.err, w, <<>>) ELSE Out("Ok", w, Pubkey(c.v.owner))

process_get_registration_fee(w) ==
    LET c == ProgramConfig_unpack(w.config) IN
    IF c.err # "Ok" THEN Out(c.err, w, <<>>)
    ELSE Out("Ok", w, to_le_bytes(c.v.registration_fee, 8))

process_get_pending_contract_owner(w) ==
    LET c == ProgramConfig_unpack(w.config) IN
    IF c.err # "Ok" THEN Out(c.err, w, <<>>)
    ELSE Out("Ok", w, Pubkey(c.v.pending_owner))

\* (mutant of process_withdraw: the owner is credited and the config account
\* keeps its lamports)
process_withdraw_keep(w, owner, is_signer) ==
    IF ~is_signer THEN Out("MissingRequiredSignature", w, <<>>)
    ELSE LET c == ProgramConfig_unpack(w.config) IN
    IF c.err # "Ok" THEN Out(c.err, w, <<>>)
    ELSE IF validate_program_owner(c.v.owner, owner) # "Ok"
    THEN Out(validate_program_owner(c.v.owner, owner), w, <<>>)
    ELSE IF w.configLamports = 0 THEN Out("NothingToWithdraw", w, <<>>)
    ELSE IF w.lamports[owner] + w.configLamports > U64_MAX
    THEN Out("ArithmeticOverflow", w, <<>>)
    ELSE Out("Ok", [w EXCEPT !.lamports[owner] = @ + w.configLamports], <<>>)

\* (mutant of process_withdraw: the config account is emptied and the owner is
\* not credited)
process_withdraw_uncredited(w, owner, is_signer) ==
    IF ~is_signer THEN Out("MissingRequiredSignature", w, <<>>)
    ELSE LET c == ProgramConfig_unpack(w.config) IN
    IF c.err # "Ok" THEN Out(c.err, w, <<>>)
    ELSE IF validate_program_owner(c.v.owner, owner) # "Ok"
    THEN Out(validate_program_owner(c.v.owner, owner), w, <<>>)
    ELSE IF w.configLamports = 0 THEN Out("NothingToWithdraw", w, <<>>)
    ELSE Out("Ok", [w EXCEPT !.configLamports = 0], <<>>)

\* The config account is emptied before the checked credit of the owner.
process_withdraw(w, owner, is_signer) ==
    IF ~is_signer THEN Out("MissingRequiredSignature", w, <<>>)
    ELSE LET c == ProgramConfig_unpack(w.config) IN
    IF c.err # "Ok" THEN Out(c.err, w, <<>>)
    ELSE IF validate_program_owner(c.v.owner, owner) # "Ok"
    THEN Out(validate_program_owner(c.v.owner, owner), w, <<>>)
    ELSE LET config_lamports == w.configLamports IN
    IF config_lamports = 0 THEN Out("NothingToWithdraw", w, <<>>)
    ELSE LET w1 == [w EXCEPT !.configLamports = 0] IN
    IF w1.lamports[owner] + config_lamports > U64_MAX
    THEN Out("ArithmeticOverflow", w1, <<>>)
    ELSE Out("Ok", [w1 EXCEPT !.lamports[owner] = @ + config_lamports], <<>>)

\* ------------------------------------------------------------ instructions
\* Names as the bytes of the String: "a-1", 32 times "a", and "a_".  Callers
\* submit the first and the last.
Name_a1 == <<97, 45, 49>>
Name_full == [i \in 1..MAX_NAME_LENGTH |-> 97]
Name_bad == <<97, 95>>
Names == {Name_a1, Name_bad}

\* Who passes a signer account: any address, signing or not; the all-zero
\* key (the system program's) cannot sign.
Callers == {c \in AnyKey \X BOOLEAN : c[1] = 0 => ~c[2]}

\* (mutant of process_instruction: the writes of a failed instruction stay)
process_instruction_keep(w, out) == out

\* process_instruction under the host: the handler's result goes to the
\* caller, and its writes and return data are kept only when the result is Ok.
process_instruction(w, out) ==
    IF out.err = "Ok" THEN out ELSE Out(out.err, w, <<>>)

\* The accounts after an instruction
Commit(out) ==
    /\ nameSlot' = out.w.name
    /\ addrSlot' = out.w.addr
    /\ pendSlot' = out.w.pend
    /\ config' = out.w.config
    /\ lamports' = out.w.lamports
    /\ configLamports' = out.w.configLamports
    /\ UNCHANGED now

Init ==
    /\ nameSlot = [s \in NameSlots |-> Zeros(NameAccount_LEN)]
    /\ addrSlot = [s \in AddrSlots |-> Zeros(AddressAccount_LEN)]
    /\ pendSlot = [s \in PendSlots |-> Zeros(PendingUpdateAccount_LEN)]
    /\ config = Zeros(ProgramConfig_LEN)
    /\ lamports = [k \in Keys |-> InitLamports]
    /\ configLamports \in 0..MaxRent
    /\ now = 0

Initialize ==
    \E c \in Callers, fee \in Fees :
    \E out \in {process_instruction(World, process_initialize(World, c[1], c[2], fee))} :
        /\ Commit(out)

RegisterName ==
    \E c \in Callers, na \in NameSlots, aa \in AddrSlots, sys \in BOOLEAN,
       name \in Names :
    \E out \in {process_instruction(World,
                    process_register_name(World, c[1], c[2], na, aa, sys, name, now))} :
        /\ Commit(out)

RequestAddressUpdate ==
    \E c \in Callers, na \in NameSlots, pa \in PendSlots, new_address \in AnyKey :
    \E out \in {process_instruction(World,
                    process_request_address_update(World, c[1], c[2], na, pa,
                                                   new_address, now))} :
        /\ Commit(out)

CompleteAddressUpdate ==
    \E c \in Callers, na \in NameSlots, aa \in AddrSlots, pa \in PendSlots :
    \E out \in {process_instruction(World,
                    process_complete_address_update(World, c[1], c[2], na, aa, pa, now))} :
        /\ Commit(out)

RenameName ==
    \E c \in Callers, old \in NameSlots, new \in NameSlots, aa \in AddrSlots,
       new_name \in Names :
    \E out \in {process_instruction(World,
                    process_rename_name(World, c[1], c[2], old, new, aa, new_name, now))} :
        /\ Commit(out)

SetRegistrationFee ==
    \E c \in Callers, new_fee \in Fees :
    \E out \in {process_instruction(World,
                    process_set_registration_fee(World, c[1], c[2], new_fee))} :
        /\ Commit(out)

ChangeProgramOwner ==
    \E c \in Callers, new_owner \in AnyKey :
    \E out \in {process_instruction(World,
                    process_change_program_owner(World, c[1], c[2], new_owner))} :
        /\ Commit(out)

AcceptProgramOwnership ==
    \E c \in Callers :
    \E out \in {process_instruction(World,
                    process_accept_program_ownership(World, c[1], c[2]))} :
        /\ Commit(out)

ResolveAddress ==
    \E na \in NameSlots :
    \E out \in {process_instruction(World, process_resolve_address(World, na))} :
        /\ Commit(out)

GetContractOwner ==
    \E out \in {process_instruction(World, process_get_contract_owner(World))} :
        /\ Commit(out)

GetRegistrationFee ==
    \E out \in {process_instruction(World, process_get_registration_fee(World))} :
        /\ Commit(out)

GetPendingContractOwner ==
    \E out \in {process_instruction(World, process_get_pending_contract_owner(World))} :
        /\ Commit(out)

Withdraw ==
    \E c \in Callers :
    \E out \in {process_instruction(World, process_withdraw(World, c[1], c[2]))} :
        /\ Commit(out)

\* The clock moves between instructions
Tick ==
    /\ now < MaxTime
    /\ now' = now + 1
    /\ UNCHANGED accounts

Next ==
    \/ Initialize
    \/ RegisterName
    \/ RequestAddressUpdate
    \/ CompleteAddressUpdate
    \/ RenameName
    \/ SetRegistrationFee
    \/ ChangeProgramOwner
    \/ AcceptProgramOwnership
    \/ ResolveAddress
    \/ GetContractOwner
    \/ GetRegistrationFee
    \/ GetPendingContractOwner
    \/ Withdraw
    \/ Tick

Spec == Init /\ [][Next]_vars

\* ------------------------------------------------------------ claims
\* What the claims speak of: the records as read from a world's buffers, and
\* the outcome of one instruction issued in a world w.
ConfigOf(w) == ProgramConfig_unpack_unchecked(w.config).v
NameFlag(w, na) == w.name[na][1] = 1
AddrFlag(w, aa) == w.addr[aa][1] = 1
PendFlag(w, pa) == w.pend[pa][1] = 1

\* ^[A-Za-z0-9-]{1,32}$
NameRegex(name) ==
    /\ Len(name) >= 1 /\ Len(name) <= 32
    /\ \A i \in 1..Len(name) :
          \/ (name[i] >= 48 /\ name[i] <= 57) \/ (name[i] >= 65 /\ name[i] <= 90)
          \/ (name[i] >= 97 /\ name[i] <= 122) \/ name[i] = 45
RegexNames == {n \in {Name_a1, Name_full, Name_bad} : NameRegex(n)}

DoRegister(w, c, na, aa, name, t) ==
    process_instruction(w, process_register_name(w, c, TRUE, na, aa, TRUE, name, t))
DoRequest(w, c, na, pa, new_address, t) ==
    process_instruction(w, process_request_address_update(w, c, TRUE, na, pa,
                                                          new_address, t))
DoComplete(w, c, na, aa, pa, t) ==
    process_instruction(w, process_complete_address_update(w, c, TRUE, na, aa, pa, t))
DoRename(w, c, old, new, aa, new_name, t) ==
    process_instruction(w, process_rename_name(w, c, TRUE, old, new, aa, new_name, t))
DoResolve(w, na) == process_instruction(w, process_resolve_address(w, na))

\* The preconditions of RegisterName: config initialized, both slots not
\* initialized, the caller able to pay the fee into the config account.
CanRegister(w, c, na, aa) ==
    /\ ConfigOf(w).is_initialized
    /\ ~NameFlag(w, na)
    /\ ~AddrFlag(w, aa)
    /\ w.lamports[c] >= ConfigOf(w).registration_fee
    /\ w.configLamports + ConfigOf(w).registration_fee <= U64_MAX

\* A failed instruction leaves the accounts as they were
FailureKeeps(w, out) ==
    \A r \in {process_instruction(w, out)} : r.err # "Ok" => r.w = w

C2_RegisterThenResolve ==
    \A c \in Keys, na \in NameSlots, aa \in AddrSlots, name \in RegexNames :
        CanRegister(World, c, na, aa) =>
            \A r \in {DoRegister(World, c, na, aa, name, now)} :
                /\ r.err = "Ok"
                /\ DoResolve(r.w, na).err = "Ok"
                /\ DoResolve(r.w, na).data = Pubkey(c)

\* C3: RegisterName of a name whose record is initialized (it has been
\* registered) fails with NameTaken and leaves the record's owner, address
\* and cooldown as they were.
C3_SecondRegisterNameTaken ==
    \A c \in Keys, c2 \in Keys, na \in NameSlots, aa \in AddrSlots,
       aa2 \in AddrSlots, name \in RegexNames :
        CanRegister(World, c, na, aa) =>
            \A r1 \in {DoRegister(World, c, na, aa, name, now)} :
                \A r2 \in {DoRegister(r1.w, c2, na, aa2, name, now)} :
                    /\ r2.err = "NameTaken"
                    /\ r2.w.name[na] = r1.w.name[na]

\* C4: RegisterName by a caller whose reverse record is initialized (the
\* caller has registered a name) fails with NameAlreadyRegistered, and
\* neither the target name record nor the reverse record changes.
C4_SecondNameSameCaller ==
    \A c \in Keys, na \in NameSlots, nb \in NameSlots, aa \in AddrSlots,
       name \in RegexNames, m \in RegexNames :
        (CanRegister(World, c, na, aa) /\ nb # na /\ ~NameFlag(World, nb)) =>
            \A r1 \in {DoRegister(World, c, na, aa, name, now)} :
                \A r2 \in {DoRegister(r1.w, c, nb, aa, m, now)} :
                    /\ r2.err = "NameAlreadyRegistered"
                    /\ r2.w.name[nb] = r1.w.name[nb]
                    /\ r2.w.addr[aa] = r1.w.addr[aa]

\* C5: no address is the owner of more than one initialized name record.
C5_OneNamePerOwner ==
    \A na \in NameSlots, nb \in NameSlots :
        \A a \in {NameAccount_unpack(nameSlot[na])},
           b \in {NameAccount_unpack(nameSlot[nb])} :
            (a.err = "Ok" /\ b.err = "Ok" /\ a.v.owner = b.v.owner) => na = nb

\* C6: once a RequestAddressUpdate has set the escrow of a name to the target
\* T, a CompleteAddressUpdate signed by any other key fails with
\* NotPendingAddress and changes nothing, and the one signed by T succeeds.
C6_OnlyTargetCompletes ==
    \A c \in Keys, t \in Keys, k \in Keys, na \in NameSlots, aa \in AddrSlots,
       pa \in PendSlots, name \in RegexNames :
        (CanRegister(World, c, na, aa) /\ ~PendFlag(World, pa) /\ t # c) =>
            \A r1 \in {DoRegister(World, c, na, aa, name, now)} :
                \A r2 \in {DoRequest(r1.w, c, na, pa, t, now)} :
                    \A r3 \in {DoComplete(r2.w, k, na, aa, pa, now)} :
                        IF k = t THEN r3.err = "Ok"
                        ELSE r3.err = "NotPendingAddress" /\ r3.w = r2.w

\* C7: CompleteAddressUpdate with an escrow record that is not initialized
\* fails with NoPendingUpdate and changes nothing.
C7_NoEscrowNoPendingUpdate ==
    \A c \in Keys, na \in NameSlots, aa \in AddrSlots, pa \in PendSlots :
        ~PendFlag(World, pa) =>
            \A r \in {DoComplete(World, c, na, aa, pa, now)} :
                r.err = "NoPendingUpdate" /\ r.w = World

\* C8: a RenameName by the owner of a registered name succeeds as one move of
\* three records: resolving the old name then fails with NameNotFound, the
\* new name resolves to the address the old one had, and the owner's reverse
\* record names the new name.
C8_RenameMovesRecords ==
    \A c \in Keys, old \in NameSlots, new \in NameSlots, aa \in AddrSlots,
       name \in RegexNames, new_name \in RegexNames :
        (CanRegister(World, c, old, aa) /\ new # old /\ ~NameFlag(World, new)
                                        /\ new_name # name) =>
            \A r1 \in {DoRegister(World, c, old, aa, name, now)} :
                \A r2 \in {DoRename(r1.w, c, old, new, aa, new_name,
                                    get_cooldown_until(now))} :
                    /\ r2.err = "Ok"
                    /\ DoResolve(r2.w, old).err = "NameNotFound"
                    /\ DoResolve(r2.w, new).data = DoResolve(r1.w, old).data
                    /\ AddressAccount_unpack(r2.w.addr[aa]).v.name = new_name

\* C9: after a RegisterName at time t, a RequestAddressUpdate or RenameName
\* on that name by its owner at a time before t + 86400 fails with
\* CooldownNotOver.
C9_CooldownAfterRegister ==
    \A c \in Keys, t \in Keys, na \in NameSlots, new \in NameSlots,
       aa \in AddrSlots, pa \in PendSlots, name \in RegexNames,
       new_name \in RegexNames, later \in now..MaxTime :
        (CanRegister(World, c, na, aa) /\ later < get_cooldown_until(now)) =>
            \A r1 \in {DoRegister(World, c, na, aa, name, now)} :
                /\ DoRequest(r1.w, c, na, pa, t, later).err = "CooldownNotOver"
                /\ DoRename(r1.w, c, na, new, aa, new_name, later).err
                       = "CooldownNotOver"

\* C10: on a registered name whose cooldown_until is u, a RequestAddressUpdate
\* or RenameName by its owner succeeds when the clock is u or later, and
\* fails with CooldownNotOver when the clock is u - 1 or earlier.
C10_CooldownBoundary ==
    \A c \in Keys, t \in Keys, na \in NameSlots, new \in NameSlots,
       aa \in AddrSlots, pa \in PendSlots, name \in RegexNames,
       new_name \in RegexNames, at \in 0..(MaxTime + 1) :
        (CanRegister(World, c, na, aa) /\ ~PendFlag(World, pa) /\ t # c
                                       /\ new # na /\ ~NameFlag(World, new)
                                       /\ new_name # name) =>
            \A r1 \in {DoRegister(World, c, na, aa, name, now)} :
                \A u \in {NameAccount_unpack_unchecked(r1.w.name[na]).v.cooldown_until} :
                    /\ DoRequest(r1.w, c, na, pa, t, at).err
                           = (IF at >= u THEN "Ok" ELSE "CooldownNotOver")
                    /\ DoRename(r1.w, c, na, new, aa, new_name, at).err
                           = (IF at >= u THEN "Ok" ELSE "CooldownNotOver")

DoChange(w, c, new_owner) ==
    process_instruction(w, process_change_program_owner(w, c, TRUE, new_owner))
DoAccept(w, c) ==
    process_instruction(w, process_accept_program_ownership(w, c, TRUE))
DoSetFee(w, c, fee) ==
    process_instruction(w, process_set_registration_fee(w, c, TRUE, fee))
DoWithdraw(w, c) == process_instruction(w, process_withdraw(w, c, TRUE))
DoInitialize(w, c, fee) ==
    process_instruction(w, process_initialize(w, c, TRUE, fee))

\* C11: after ChangeProgramOwner(X) by the administrator, an
\* AcceptProgramOwnership signed by an address other than X fails with
\* NotPendingContractOwner and leaves owner and pending_owner as they were;
\* signed by X it succeeds, makes X the owner and resets pending_owner to the
\* all-zero key.
C11_HandoffOnlyToPending ==
    \A x \in Keys, k \in Keys :
        ConfigOf(World).is_initialized =>
            \A r1 \in {DoChange(World, ConfigOf(World).owner, x)} :
                \A r2 \in {DoAccept(r1.w, k)} :
                    /\ r1.err = "Ok"
                    /\ ConfigOf(r1.w).pending_owner = x
                    /\ IF k = x
                       THEN /\ r2.err = "Ok"
                            /\ ConfigOf(r2.w).owner = x
                            /\ ConfigOf(r2.w).pending_owner = 0
                       ELSE /\ r2.err = "NotPendingContractOwner"
                            /\ ConfigOf(r2.w).owner = ConfigOf(r1.w).owner
                            /\ ConfigOf(r2.w).pending_owner = x

\* C11 witness: a ChangeProgramOwner(X) has been done, X is not the owner, X's
\* acceptance goes through and the owner's own acceptance is refused.
C11_PendingHandoff ==
    \E x \in Keys :
        /\ ConfigOf(World).is_initialized
        /\ ConfigOf(World).pending_owner = x
        /\ ConfigOf(World).owner # x
        /\ DoAccept(World, x).err = "Ok"
        /\ ConfigOf(DoAccept(World, x).w).owner = x
        /\ DoAccept(World, ConfigOf(World).owner).err = "NotPendingContractOwner"

\* The instruction leaves config.owner and config.pending_owner as they were
KeepsOwnerAndPending(w, out) ==
    \A r \in {process_instruction(w, out).w} :
        \/ r.config = w.config
        \/ /\ ConfigOf(r).owner = ConfigOf(w).owner
           /\ ConfigOf(r).pending_owner = ConfigOf(w).pending_owner

\* C12: once the config is initialized, config.owner is never the all-zero
\* key and changes only through a successful AcceptProgramOwnership, and then
\* only to the signer of that call, who equals the pending_owner; pending_owner
\* itself is set only by a ChangeProgramOwner signed by the current owner (and
\* reset by the acceptance), and ChangeProgramOwner never changes the owner.
C12_OwnerChangesOnlyByAccept ==
    ConfigOf(World).is_initialized =>
        /\ ConfigOf(World).owner # 0
        /\ \A c \in Callers :
              \A r \in {process_instruction(World,
                            process_accept_program_ownership(World, c[1], c[2]))} :
                  /\ ConfigOf(r.w).owner # ConfigOf(World).owner =>
                        /\ r.err = "Ok" /\ c[2]
                        /\ ConfigOf(r.w).owner = c[1]
                        /\ ConfigOf(World).pending_owner = c[1]
                  /\ ConfigOf(r.w).pending_owner # ConfigOf(World).pending_owner =>
                        r.err = "Ok" /\ ConfigOf(r.w).pending_owner = 0
        /\ \A c \in Callers, k \in AnyKey :
              \A r \in {process_instruction(World,
                            process_change_program_owner(World, c[1], c[2], k))} :
                  /\ ConfigOf(r.w).owner = ConfigOf(World).owner
                  /\ ConfigOf(r.w).pending_owner # ConfigOf(World).pending_owner =>
                        /\ r.err = "Ok" /\ c[2]
                        /\ c[1] = ConfigOf(World).owner
                        /\ ConfigOf(r.w).pending_owner = k
        /\ \A c \in Callers, fee \in Fees :
              /\ KeepsOwnerAndPending(World, process_initialize(World, c[1], c[2], fee))
              /\ KeepsOwnerAndPending(World,
                     process_set_registration_fee(World, c[1], c[2], fee))
        /\ \A c \in Callers : KeepsOwnerAndPending(World, process_withdraw(World, c[1], c[2]))
        /\ \A c \in Callers, na \in NameSlots, aa \in AddrSlots, name \in Names :
              /\ \A sys \in BOOLEAN :
                    KeepsOwnerAndPending(World,
                        process_register_name(World, c[1], c[2], na, aa, sys, name, now))
              /\ \A new \in NameSlots :
                    KeepsOwnerAndPending(World,
                        process_rename_name(World, c[1], c[2], na, new, aa, name, now))
        /\ \A c \in Callers, na \in NameSlots, pa \in PendSlots :
              /\ \A k \in AnyKey :
                    KeepsOwnerAndPending(World,
                        process_request_address_update(World, c[1], c[2], na, pa, k, now))
              /\ \A aa \in AddrSlots :
                    KeepsOwnerAndPending(World,
                        process_complete_address_update(World, c[1], c[2], na, aa, pa, now))
        /\ \A na \in NameSlots :
              KeepsOwnerAndPending(World, process_resolve_address(World, na))
        /\ KeepsOwnerAndPending(World, process_get_contract_owner(World))
        /\ KeepsOwnerAndPending(World, process_get_registration_fee(World))
        /\ KeepsOwnerAndPending(World, process_get_pending_contract_owner(World))

\* C12 witness: an acceptance that changes the owner, after a
\* ChangeProgramOwner that did not.
C12_AcceptChangesOwner ==
    \E a \in Keys, x \in Keys :
        /\ ConfigOf(World).is_initialized
        /\ ConfigOf(World).owner = a /\ x # a
        /\ ConfigOf(World).pending_owner = x
        /\ DoAccept(World, x).err = "Ok"
        /\ ConfigOf(DoAccept(World, x).w).owner = x
        /\ DoChange(World, a, a).err = "Ok"
        /\ ConfigOf(DoChange(World, a, a).w).owner = a

\* What a Withdraw that went through has done: the owner has exactly the
\* config account's lamports more, the config account holds none, and nothing
\* else has moved.
Withdrawn(w, r, a) ==
    /\ r.err = "Ok"
    /\ r.w = [w EXCEPT !.lamports[a] = @ + w.configLamports, !.configLamports = 0]

RefusedAsNotOwner(w, k, newOwners) ==
    /\ \A fee \in Fees :
          DoSetFee(w, k, fee).err = "NotContractOwner" /\ DoSetFee(w, k, fee).w = w
    /\ \A x \in newOwners :
          DoChange(w, k, x).err = "NotContractOwner" /\ DoChange(w, k, x).w = w
    /\ DoWithdraw(w, k).err = "NotContractOwner" /\ DoWithdraw(w, k).w = w

\* The administrator a hands over to x: ChangeProgramOwner(x) by a, then
\* AcceptProgramOwnership by x.
Handoff(w, a, x) == DoAccept(DoChange(w, a, x).w, x)

\* C14 as stated: SetRegistrationFee, ChangeProgramOwner (with any new owner)
\* and Withdraw signed by an address other than config.owner fail with
\* NotContractOwner and change neither the config nor any balance, also for
\* the previous owner right after a completed handoff.
C14_NonOwnerAlwaysNotContractOwner ==
    ConfigOf(World).is_initialized =>
        \A k \in Keys :
            /\ k # ConfigOf(World).owner => RefusedAsNotOwner(World, k, AnyKey)
            /\ (k # ConfigOf(World).owner /\ Handoff(World, ConfigOf(World).owner, k).err = "Ok")
                  => RefusedAsNotOwner(Handoff(World, ConfigOf(World).owner, k).w,
                                       ConfigOf(World).owner, AnyKey)

\* C14, amended: the same with ChangeProgramOwner restricted to a new owner
\* that is not the all-zero key; with the all-zero key the call fails with
\* InvalidAddress whoever signs, and changes nothing.
C14_NonOwnerNotContractOwner ==
    ConfigOf(World).is_initialized =>
        \A k \in Keys :
            /\ k # ConfigOf(World).owner =>
                  /\ RefusedAsNotOwner(World, k, Keys)
                  /\ DoChange(World, k, 0).err = "InvalidAddress"
                  /\ DoChange(World, k, 0).w = World
            /\ k # ConfigOf(World).owner =>
                  \A h \in {Handoff(World, ConfigOf(World).owner, k)} :
                      /\ h.err = "Ok"
                      /\ RefusedAsNotOwner(h.w, ConfigOf(World).owner, Keys)

\* C14 witness: the config account holds lamports, a key that is not the
\* owner is refused, and after the owner has handed over to that key the
\* previous owner is refused.
C14_PreviousOwnerRefused ==
    \E a \in Keys, k \in Keys :
        /\ ConfigOf(World).is_initialized /\ ConfigOf(World).owner = a /\ k # a
        /\ configLamports > 0
        /\ DoWithdraw(World, k).err = "NotContractOwner"
        /\ Handoff(World, a, k).err = "Ok"
        /\ ConfigOf(Handoff(World, a, k).w).owner = k
        /\ DoWithdraw(Handoff(World, a, k).w, a).err = "NotContractOwner"
        /\ DoSetFee(Handoff(World, a, k).w, a, 0).err = "NotContractOwner"

\* is_initialized as stored in the config account's first byte
ConfigFlag == config[1] = 1

\* Initialize by any signer with any fee, on the config as it is now.
InitializeOnce ==
    \A c \in Keys, fee \in Fees :
        \A r \in {DoInitialize(World, c, fee)} :
            IF ~ConfigOf(World).is_initialized
            THEN /\ r.err = "Ok"
                 /\ ConfigOf(r.w) = [is_initialized |-> TRUE, owner |-> c,
                                     pending_owner |-> 0, registration_fee |-> fee]
                 /\ r.w = [World EXCEPT !.config = r.w.config]
            ELSE /\ r.err = "AlreadyInitialized"
                 /\ r.w = World

\* C15: Initialize succeeds only while the config is not initialized, and then
\* stores {initialized, owner = caller, pending_owner = all-zero key, fee};
\* any later Initialize fails with AlreadyInitialized and leaves owner,
\* pending_owner and fee as they were; and no step takes an initialized config
\* back to not initialized.
C15_InitializeOnceForGood ==
    []InitializeOnce /\ [][ConfigFlag => ConfigFlag']_vars

\* C15 witness: the config is initialized with a pending owner and a fee set,
\* and an Initialize by a key that is not the owner is refused.
C15_SecondInitializeRefused ==
    \E c \in Keys :
        /\ ConfigFlag
        /\ ConfigOf(World).owner # c
        /\ ConfigOf(World).pending_owner # 0
        /\ ConfigOf(World).registration_fee > 0
        /\ DoInitialize(World, c, 0).err = "AlreadyInitialized"

\* C16: ResolveAddress on a name slot that is allocated but not initialized
\* fails with NameNotFound.
C16_ResolveUninitializedNameNotFound ==
    \A na \in NameSlots :
        ~NameFlag(World, na) => DoResolve(World, na).err = "NameNotFound"

NameOf(w, na) == NameAccount_unpack_unchecked(w.name[na]).v
PendingOf(w, pa) == PendingUpdateAccount_unpack_unchecked(w.pend[pa]).v

\* C17: a CompleteAddressUpdate signed by the escrow's target T (after the
\* owner's RequestAddressUpdate(T) on a registered name) succeeds, sets the
\* name record's address and owner to T and its cooldown_until to the current
\* time, and clears the escrow; the previous owner's RequestAddressUpdate or
\* RenameName on the name then fails with NotNameOwner.
C17_CompleteMovesOwnership ==
    \A c \in Keys, t \in Keys, na \in NameSlots, new \in NameSlots,
       aa \in AddrSlots, pa \in PendSlots, name \in RegexNames :
        (CanRegister(World, c, na, aa) /\ ~PendFlag(World, pa) /\ t # c) =>
            \A r1 \in {DoRegister(World, c, na, aa, name, now)} :
                \A r2 \in {DoRequest(r1.w, c, na, pa, t, now)} :
                    \A r3 \in {DoComplete(r2.w, t, na, aa, pa, now)} :
                        /\ r3.err = "Ok"
                        /\ NameOf(r3.w, na).owner = t
                        /\ NameOf(r3.w, na).address = t
                        /\ NameOf(r3.w, na).cooldown_until = now
                        /\ PendingOf(r3.w, pa) = PendingUpdateAccount_default
                        /\ DoRequest(r3.w, c, na, pa, c, now).err = "NotNameOwner"
                        /\ DoRename(r3.w, c, na, new, aa, name, now).err = "NotNameOwner"

\* C18: a RequestAddressUpdate(new_addr) by the owner of a registered name
\* succeeds and changes only the name's escrow, which becomes {initialized,
\* new_address = new_addr}; the name record, the reverse records, the config
\* and the balances are as before.
C18_RequestWritesOnlyEscrow ==
    \A c \in Keys, t \in Keys, na \in NameSlots, aa \in AddrSlots,
       pa \in PendSlots, name \in RegexNames :
        (CanRegister(World, c, na, aa) /\ ~PendFlag(World, pa)) =>
            \A r1 \in {DoRegister(World, c, na, aa, name, now)} :
                \A r2 \in {DoRequest(r1.w, c, na, pa, t, now)} :
                    /\ r1.err = "Ok"
                    /\ r2.err = "Ok"
                    /\ PendingOf(r2.w, pa) = [is_initialized |-> TRUE, new_address |-> t]
                    /\ r2.w = [r1.w EXCEPT !.pend[pa] = r2.w.pend[pa]]

\* C19: after a RequestAddressUpdate(new_addr) by the owner of a registered
\* name has succeeded, and before any completion, the name record's address
\* is new_addr.
C19_RequestSetsResolvedAddress ==
    \A c \in Keys, t \in Keys, na \in NameSlots, aa \in AddrSlots,
       pa \in PendSlots, name \in RegexNames :
        (CanRegister(World, c, na, aa) /\ ~PendFlag(World, pa) /\ t # c) =>
            \A r1 \in {DoRegister(World, c, na, aa, name, now)} :
                \A r2 \in {DoRequest(r1.w, c, na, pa, t, now)} :
                    /\ r2.err = "Ok"
                    /\ NameOf(r2.w, na).address = t
                    /\ DoResolve(r2.w, na).data = Pubkey(t)

\* C20: when the owner of a registered name issues RequestAddressUpdate(T1)
\* and then RequestAddressUpdate(T2) with T2 # T1, the escrow holds T2 only:
\* a completion signed by T1 fails with NotPendingAddress and one signed by
\* T2 succeeds.
C20_LaterRequestReplaces ==
    \A c \in Keys, t1 \in Keys, t2 \in Keys, na \in NameSlots, aa \in AddrSlots,
       pa \in PendSlots, name \in RegexNames :
        (CanRegister(World, c, na, aa) /\ ~PendFlag(World, pa) /\ t2 # t1) =>
            \A r1 \in {DoRegister(World, c, na, aa, name, now)} :
                \A r2 \in {DoRequest(r1.w, c, na, pa, t1, now)} :
                    \A r3 \in {DoRequest(r2.w, c, na, pa, t2, now)} :
                        /\ r2.err = "Ok" /\ r3.err = "Ok"
                        /\ PendingOf(r3.w, pa) = [is_initialized |-> TRUE,
                                                  new_address |-> t2]
                        /\ DoComplete(r3.w, t1, na, aa, pa, now).err = "NotPendingAddress"
                        /\ DoComplete(r3.w, t2, na, aa, pa, now).err = "Ok"

\* C21: on a registered name, a RequestAddressUpdate or a RenameName signed by
\* an address that is not the owner of the (old) name record fails with
\* NotNameOwner and changes nothing; a RequestAddressUpdate with the all-zero
\* key as new address fails with InvalidAddress.
C21_NonOwnerNotNameOwner ==
    \A c \in Keys, k \in Keys, t \in Keys, na \in NameSlots, new \in NameSlots,
       aa \in AddrSlots, pa \in PendSlots, name \in RegexNames,
       new_name \in RegexNames :
        (CanRegister(World, c, na, aa) /\ k # c /\ new # na /\ ~NameFlag(World, new)) =>
            \A r1 \in {DoRegister(World, c, na, aa, name, now)} :
                /\ DoRequest(r1.w, k, na, pa, t, now).err = "NotNameOwner"
                /\ DoRequest(r1.w, k, na, pa, t, now).w = r1.w
                /\ DoRename(r1.w, k, na, new, aa, new_name, now).err = "NotNameOwner"
                /\ DoRename(r1.w, k, na, new, aa, new_name, now).w = r1.w
                /\ DoRequest(r1.w, c, na, pa, 0, now).err = "InvalidAddress"

\* C22: every initialized name record has a name of 1 to 32 characters, each
\* alphanumeric or '-', and an address that is not the all-zero key.
C22_InitializedNameWellFormed ==
    \A na \in NameSlots :
        \A n \in {NameAccount_unpack(nameSlot[na])} :
            n.err = "Ok" =>
                /\ validate_name(n.v.name) = "Ok"
                /\ Len(chars(n.v.name)) >= 1 /\ Len(chars(n.v.name)) <= 32
                /\ n.v.address # 0

\* Strings to validate: every UTF-8 string of up to MaxStrLen bytes over
\* '-', '0', 'A', 'a', '_', and the two bytes of U+00E9 (e acute), and the
\* long ones: 32 and 33 times "a", 17 times U+00E9 (34 bytes), "INVALID-NAME".
StrBytes == {45, 48, 65, 97, 95, 195, 169}
Name_33 == [i \in 1..(MAX_NAME_LENGTH + 1) |-> 97]
Name_wide == [i \in 1..34 |-> IF i % 2 = 1 THEN 195 ELSE 169]
Name_upper == <<73, 78, 86, 65, 76, 73, 68, 45, 78, 65, 77, 69>>
ProbeNames ==
    {s \in UNION {[1..n -> StrBytes] : n \in 0..MaxStrLen} : from_utf8_ok(s)}
        \cup {Name_a1, Name_full, Name_bad, Name_33, Name_wide, Name_upper}

\* C23: validate_name(s) fails with InvalidNameFormat exactly when s is empty,
\* longer than 32 characters or has a character outside [A-Za-z0-9-]; the
\* names it accepts are exactly those matching ^[A-Za-z0-9-]{1,32}$.
\* A RegisterName checks its name before it reads any record, so the same
\* holds of the names it rejects as InvalidNameFormat, whatever the accounts.
C23_ValidateNameIsRegex ==
    \A s \in ProbeNames :
        /\ validate_name(s) = (IF NameRegex(s) THEN "Ok" ELSE "InvalidNameFormat")
        /\ \A c \in Keys, na \in NameSlots, aa \in AddrSlots :
              (DoRegister(World, c, na, aa, s, now).err = "InvalidNameFormat")
                  <=> ~NameRegex(s)

\* C24: a name with uppercase letters ("INVALID-NAME") is not a valid name,
\* and a RegisterName of it, all other preconditions of a registration met, is
\* rejected with InvalidNameFormat.
C24_UppercaseRejected ==
    /\ validate_name(Name_upper) = "InvalidNameFormat"
    /\ \A c \in Keys, na \in NameSlots, aa \in AddrSlots :
          CanRegister(World, c, na, aa) =>
              DoRegister(World, c, na, aa, Name_upper, now).err = "InvalidNameFormat"

\* C25: a SetRegistrationFee(fee) by the administrator changes only
\* config.registration_fee, and a RegisterName that then meets its
\* preconditions succeeds, debits the caller by exactly that fee and credits
\* the config account with the same amount.
C25_RegisterChargesCurrentFee ==
    \A c \in Keys, fee \in Fees, na \in NameSlots, aa \in AddrSlots,
       name \in RegexNames :
        ConfigOf(World).is_initialized =>
            \A r0 \in {DoSetFee(World, ConfigOf(World).owner, fee)} :
                /\ r0.err = "Ok"
                /\ ConfigOf(r0.w) = [ConfigOf(World) EXCEPT !.registration_fee = fee]
                /\ r0.w = [World EXCEPT !.config = r0.w.config]
                /\ CanRegister(r0.w, c, na, aa) =>
                      \A r1 \in {DoRegister(r0.w, c, na, aa, name, now)} :
                          /\ r1.err = "Ok"
                          /\ r1.w.lamports = [r0.w.lamports EXCEPT ![c] = @ - fee]
                          /\ r1.w.configLamports = r0.w.configLamports + fee

\* C26: a RegisterName by a caller whose balance is below the registration
\* fee, every other precondition met, fails on the fee transfer, and leaves
\* the name record, the reverse record and all balances as they were.
C26_RegisterWithoutFundsFailsOnTransfer ==
    \A c \in Keys, na \in NameSlots, aa \in AddrSlots, name \in RegexNames :
        (/\ ConfigOf(World).is_initialized
         /\ ~NameFlag(World, na) /\ ~AddrFlag(World, aa)
         /\ lamports[c] < ConfigOf(World).registration_fee) =>
            \A r \in {DoRegister(World, c, na, aa, name, now)} :
                /\ r.err = "InsufficientFunds"
                /\ r.w = World

\* A handler that fails has written nothing itself (no host rollback applied)
HandlerKeeps(w, out) == out.err # "Ok" => out.w = w

\* C27: in every operation all the checks that can fail come before the first
\* write, so a handler that returns an error has itself changed no record and
\* no balance; in particular a Withdraw whose credit overflows returns
\* ArithmeticOverflow with the config account's lamports still in place.
C27_ChecksBeforeWrites ==
    /\ \A c \in Keys :
          process_withdraw(World, c, TRUE).err = "ArithmeticOverflow" =>
              process_withdraw(World, c, TRUE).w.configLamports = configLamports
    /\ \A c \in Callers, fee \in Fees :
          /\ HandlerKeeps(World, process_initialize(World, c[1], c[2], fee))
          /\ HandlerKeeps(World, process_set_registration_fee(World, c[1], c[2], fee))
    /\ \A c \in Callers, na \in NameSlots, aa \in AddrSlots, name \in Names :
          /\ \A sys \in BOOLEAN :
                HandlerKeeps(World, process_register_name(World, c[1], c[2], na, aa,
                                                          sys, name, now))
          /\ \A new \in NameSlots :
                HandlerKeeps(World, process_rename_name(World, c[1], c[2], na, new,
                                                        aa, name, now))
    /\ \A c \in Callers, na \in NameSlots, pa \in PendSlots :
          /\ \A k \in AnyKey :
                HandlerKeeps(World, process_request_address_update(World, c[1], c[2],
                                                                   na, pa, k, now))
          /\ \A aa \in AddrSlots :
                HandlerKeeps(World, process_complete_address_update(World, c[1], c[2],
                                                                    na, aa, pa, now))
    /\ \A c \in Callers :
          /\ \A k \in AnyKey :
                HandlerKeeps(World, process_change_program_owner(World, c[1], c[2], k))
          /\ HandlerKeeps(World, process_accept_program_ownership(World, c[1], c[2]))
          /\ HandlerKeeps(World, process_withdraw(World, c[1], c[2]))
    /\ \A na \in NameSlots : HandlerKeeps(World, process_resolve_address(World, na))
    /\ HandlerKeeps(World, process_get_contract_owner(World))
    /\ HandlerKeeps(World, process_get_registration_fee(World))
    /\ HandlerKeeps(World, process_get_pending_contract_owner(World))

\* The record deterministically identified for an entity: the name slot of a
\* name, the reverse slot of an address, the escrow slot of a name.
SlotOfName(name) == IF name = Name_a1 THEN 1 ELSE 2
SlotOfAddress(k) == ((k - 1) % NumAddrSlots) + 1
EscrowOfName(na) == ((na - 1) % NumPendSlots) + 1

\* The authorization and format failures of the operations
AuthOrFormatFailures ==
    {"MissingRequiredSignature", "NotNameOwner", "NotPendingAddress",
     "NotContractOwner", "NotPendingContractOwner", "InvalidNameFormat",
     "InvalidAddress"}

\* C28: an operation given a record that is not the one identified for the
\* entity it acts on fails with an authorization or format failure and
\* changes nothing: a RegisterName(name) with a name slot that is not name's
\* or a reverse slot that is not the caller's; and, on a registered name, a
\* RenameName with another address's reverse slot or a new slot that is not
\* new_name's, and a CompleteAddressUpdate with another name's escrow.
C28_WrongRecordRefused ==
    \A c \in Keys, na \in NameSlots, aa \in AddrSlots, name \in RegexNames :
        /\ (CanRegister(World, c, na, aa)
               /\ (na # SlotOfName(name) \/ aa # SlotOfAddress(c))) =>
              \A r \in {DoRegister(World, c, na, aa, name, now)} :
                  r.err \in AuthOrFormatFailures /\ r.w = World
        /\ (CanRegister(World, c, na, aa)
               /\ na = SlotOfName(name) /\ aa = SlotOfAddress(c)) =>
              \A r1 \in {DoRegister(World, c, na, aa, name, now)} :
                  \A new \in NameSlots, ab \in AddrSlots, pa \in PendSlots,
                     new_name \in RegexNames :
                      /\ (ab # aa \/ new # SlotOfName(new_name)) =>
                            \A r2 \in {DoRename(r1.w, c, na, new, ab, new_name, now)} :
                                r2.err \in AuthOrFormatFailures /\ r2.w = r1.w
                      /\ pa # EscrowOfName(na) =>
                            \A r2 \in {DoComplete(r1.w, c, na, aa, pa, now)} :
                                r2.err \in AuthOrFormatFailures /\ r2.w = r1.w

\* C29: for each of the four record kinds, reading a buffer allocated at the
\* record's LEN and never written (all zero) succeeds and yields the default
\* record, with is_initialized = false.
C29_FreshSlotReadsAsDefault ==
    /\ \A na \in NameSlots :
          nameSlot[na] = Zeros(NameAccount_LEN) =>
              NameAccount_unpack_unchecked(nameSlot[na]) = Res("Ok", NameAccount_default)
    /\ \A aa \in AddrSlots :
          addrSlot[aa] = Zeros(AddressAccount_LEN) =>
              AddressAccount_unpack_unchecked(addrSlot[aa])
                  = Res("Ok", AddressAccount_default)
    /\ \A pa \in PendSlots :
          pendSlot[pa] = Zeros(PendingUpdateAccount_LEN) =>
              PendingUpdateAccount_unpack_unchecked(pendSlot[pa])
                  = Res("Ok", PendingUpdateAccount_default)
    /\ config = Zeros(ProgramConfig_LEN) =>
          ProgramConfig_unpack_unchecked(config) = Res("Ok", ProgramConfig_default)

\* The outcome of an operation whose caller has not signed: the failure
\* MissingRequiredSignature, and the world as it was.
Unsigned(w, out) ==
    /\ out.err = "MissingRequiredSignature"
    /\ process_instruction(w, out).w = w

\* C30: every mutating operation (Initialize, RegisterName,
\* RequestAddressUpdate, CompleteAddressUpdate, RenameName,
\* SetRegistrationFee, ChangeProgramOwner, AcceptProgramOwnership, Withdraw)
\* whose caller has not signed fails with MissingRequiredSignature and changes
\* nothing, whatever the caller's address: also when it is the administrator,
\* the pending administrator, a name's owner or an escrow's target.
C30_UnsignedCallerRefused ==
    \A k \in AnyKey :
        /\ \A fee \in Fees :
              /\ Unsigned(World, process_initialize(World, k, FALSE, fee))
              /\ Unsigned(World, process_set_registration_fee(World, k, FALSE, fee))
        /\ \A na \in NameSlots, aa \in AddrSlots, name \in Names :
              /\ \A sys \in BOOLEAN :
                    Unsigned(World, process_register_name(World, k, FALSE, na, aa,
                                                          sys, name, now))
              /\ \A new \in NameSlots :
                    Unsigned(World, process_rename_name(World, k, FALSE, na, new,
                                                        aa, name, now))
        /\ \A na \in NameSlots, pa \in PendSlots :
              /\ \A new_address \in AnyKey :
                    Unsigned(World, process_request_address_update(World, k, FALSE,
                                                                   na, pa, new_address, now))
              /\ \A aa \in AddrSlots :
                    Unsigned(World, process_complete_address_update(World, k, FALSE,
                                                                    na, aa, pa, now))
        /\ \A new_owner \in AnyKey :
              Unsigned(World, process_change_program_owner(World, k, FALSE, new_owner))
        /\ Unsigned(World, process_accept_program_ownership(World, k, FALSE))
        /\ Unsigned(World, process_withdraw(World, k, FALSE))

\* C30 (witness): the administrator holds a positive balance in the config
\* account and has named a pending administrator; signed, the administrator's
\* Withdraw and the pending administrator's acceptance succeed; unsigned, both
\* are refused.
C30_OwnerUnsignedRefused ==
    /\ ConfigFlag /\ configLamports > 0
    /\ ConfigOf(World).pending_owner \in Keys
    /\ DoWithdraw(World, ConfigOf(World).owner).err = "Ok"
    /\ DoAccept(World, ConfigOf(World).pending_owner).err = "Ok"
    /\ process_withdraw(World, ConfigOf(World).owner, FALSE).err
           = "MissingRequiredSignature"
    /\ process_accept_program_ownership(World, ConfigOf(World).pending_owner, FALSE).err
           = "MissingRequiredSignature"

\* C31: a CompleteAddressUpdate on a name signed by T succeeds only if the
\* name record's current owner requested T after the record was last
\* created.  The case: A registers the name and requests T, renames the name
\* away, B registers the name; T's CompleteAddressUpdate with the escrow A
\* left then fails and the record stays B's.
C31_StaleEscrowRefused ==
    \A a \in Keys, b \in Keys, t \in Keys, na \in NameSlots, new \in NameSlots,
       aa \in AddrSlots, ab \in AddrSlots, pa \in PendSlots, name \in RegexNames,
       new_name \in RegexNames :
        (CanRegister(World, a, na, aa) /\ ~PendFlag(World, pa) /\ ~NameFlag(World, new)
            /\ ~AddrFlag(World, ab) /\ a # b /\ t # b /\ new # na /\ ab # aa
            /\ new_name # name) =>
            \A r1 \in {DoRegister(World, a, na, aa, name, now)} :
             \A r2 \in {DoRequest(r1.w, a, na, pa, t, now)} :
              \A r3 \in {DoRename(r2.w, a, na, new, aa, new_name, now)} :
               CanRegister(r3.w, b, na, ab) =>
                \A r4 \in {DoRegister(r3.w, b, na, ab, name, now)} :
                 \A ac \in AddrSlots :
                  \A r5 \in {DoComplete(r4.w, t, na, ac, pa, now)} :
                      /\ r1.err = "Ok" /\ r2.err = "Ok" /\ r3.err = "Ok"
                      /\ r4.err = "Ok"
                      /\ r5.err # "Ok"
                      /\ NameOf(r5.w, na).is_initialized
                      /\ NameOf(r5.w, na).owner = b

AddressOf(w, aa) == AddressAccount_unpack_unchecked(w.addr[aa]).v

\* The name records and the reverse records agree in both directions
RecordsAgree(w) ==
    \A k \in Keys, n \in RegexNames :
        (AddressOf(w, SlotOfAddress(k)).is_initialized
            /\ AddressOf(w, SlotOfAddress(k)).name = n)
        <=> (\E na \in NameSlots :
                /\ NameOf(w, na).is_initialized
                /\ NameOf(w, na).name = n
                /\ NameOf(w, na).owner = k)

\* C32: in every reachable state address A's reverse record is initialized
\* with name n if and only if the name record for n is initialized with owner
\* A; and the agreement survives a CompleteAddressUpdate that moves a
\* registered name from its owner to the requested address.
C32_NameAndReverseAgree ==
    /\ RecordsAgree(World)
    /\ \A c \in Keys, t \in Keys, na \in NameSlots, pa \in PendSlots,
          name \in RegexNames :
           (CanRegister(World, c, na, SlotOfAddress(c)) /\ ~PendFlag(World, pa)
               /\ ~AddrFlag(World, SlotOfAddress(t)) /\ t # c) =>
               \A r1 \in {DoRegister(World, c, na, SlotOfAddress(c), name, now)} :
                \A r2 \in {DoRequest(r1.w, c, na, pa, t, now)} :
                 \A ac \in AddrSlots :
                  \A r3 \in {DoComplete(r2.w, t, na, ac, pa, now)} :
                      (ac \in {SlotOfAddress(c), SlotOfAddress(t)}) =>
                          r3.err = "Ok" /\ RecordsAgree(r3.w)

\* The address owns an initialized name record
OwnsName(w, k) ==
    \E na \in NameSlots : NameOf(w, na).is_initialized /\ NameOf(w, na).owner = k

\* C33: RegisterName fails with NameAlreadyRegistered only when the caller
\* owns an initialized name record; an address whose only name has moved to
\* another address through a completed address update registers a new name
\* with success.
C33_RegisterAfterHandingOver ==
    /\ \A c \in Keys, na \in NameSlots, name \in RegexNames :
          DoRegister(World, c, na, SlotOfAddress(c), name, now).err
              = "NameAlreadyRegistered" => OwnsName(World, c)
    /\ \A c \in Keys, t \in Keys, na \in NameSlots, new \in NameSlots,
          pa \in PendSlots, name \in RegexNames, new_name \in RegexNames :
           (CanRegister(World, c, na, SlotOfAddress(c)) /\ ~PendFlag(World, pa)
               /\ ~NameFlag(World, new) /\ new # na /\ new_name # name /\ t # c
               /\ lamports[c] >= 2 * ConfigOf(World).registration_fee
               /\ configLamports + 2 * ConfigOf(World).registration_fee <= U64_MAX) =>
               \A r1 \in {DoRegister(World, c, na, SlotOfAddress(c), name, now)} :
                \A r2 \in {DoRequest(r1.w, c, na, pa, t, now)} :
                 \A r3 \in {DoComplete(r2.w, t, na, SlotOfAddress(c), pa, now)} :
                  \A r4 \in {DoRegister(r3.w, c, new, SlotOfAddress(c), new_name, now)} :
                      /\ r3.err = "Ok" /\ ~OwnsName(r3.w, c)
                      /\ r4.err = "Ok"

\* C34: whenever an address owns an initialized name record and the time is
\* at least the record's cooldown_until, its RenameName to a valid name whose
\* record is not initialized succeeds with the address's own reverse record;
\* so it does for an address that obtained the name through
\* CompleteAddressUpdate.
C34_OwnerRenamesAfterCooldown ==
    /\ \A k \in Keys, na \in NameSlots, new \in NameSlots, new_name \in RegexNames :
          (NameOf(World, na).is_initialized /\ NameOf(World, na).owner = k
              /\ now >= NameOf(World, na).cooldown_until /\ ~NameFlag(World, new)) =>
              DoRename(World, k, na, new, SlotOfAddress(k), new_name, now).err = "Ok"
    /\ \A c \in Keys, t \in Keys, na \in NameSlots, new \in NameSlots,
          pa \in PendSlots, name \in RegexNames, new_name \in RegexNames :
           (CanRegister(World, c, na, SlotOfAddress(c)) /\ ~PendFlag(World, pa)
               /\ ~NameFlag(World, new) /\ ~AddrFlag(World, SlotOfAddress(t))
               /\ new # na /\ new_name # name /\ t # c) =>
               \A r1 \in {DoRegister(World, c, na, SlotOfAddress(c), name, now)} :
                \A r2 \in {DoRequest(r1.w, c, na, pa, t, now)} :
                 \A r3 \in {DoComplete(r2.w, t, na, SlotOfAddress(c), pa, now)} :
                  \A r4 \in {DoRename(r3.w, t, na, new, SlotOfAddress(t), new_name, now)} :
                      /\ r3.err = "Ok"
                      /\ NameOf(r3.w, na).owner = t
                      /\ now >= NameOf(r3.w, na).cooldown_until
                      /\ r4.err = "Ok"

\* C35: in every reachable state every initialized name record has its
\* address (the resolved address) equal to its owner.
C35_ResolvedAddressIsOwner ==
    \A na \in NameSlots :
        NameOf(World, na).is_initialized =>
            NameOf(World, na).address = NameOf(World, na).owner

\* The lamports of the signing addresses 1..n together
RECURSIVE SumLamports(_, _)
SumLamports(l, n) == IF n = 0 THEN 0 ELSE l[n] + SumLamports(l, n - 1)

\* All value: the callers' balances and what the config account holds
TotalValue(w) == SumLamports(w.lamports, NumKeys) + w.configLamports

\* How one step may move value: not at all; a Withdraw that empties the config
\* account into one address; a RegisterName that moves the registration fee
\* from one address into the config account.
ValueStep ==
    \/ UNCHANGED <<lamports, configLamports>>
    \/ /\ Withdraw
       /\ configLamports' = 0
       /\ \E k \in Keys : lamports' = [lamports EXCEPT ![k] = @ + configLamports]
    \/ /\ RegisterName
       /\ configLamports' = configLamports + ConfigOf(World).registration_fee
       /\ \E k \in Keys :
             lamports' = [lamports EXCEPT ![k] = @ - ConfigOf(World).registration_fee]

\* C36: value is conserved: over every step the callers' balances plus the
\* config account's holding stay the same in sum; the holding grows only by
\* the fee of a successful registration and falls only to zero by a
\* successful Withdraw; no other operation changes a balance.
C36_ValueConserved ==
    [][TotalValue(World)' = TotalValue(World) /\ ValueStep]_vars

\* C36 (witness): a Withdraw has moved the config account's holding to the
\* administrator.
C36_ValueWithdrawn ==
    /\ ConfigFlag /\ configLamports = 0
    /\ lamports[ConfigOf(World).owner] > InitLamports
    /\ DoWithdraw(World, ConfigOf(World).owner).err = "NothingToWithdraw"

\* An instruction that fails and leaves every record and balance as it was
Refused(w, out) ==
    \A r \in {process_instruction(w, out)} : r.err # "Ok" /\ r.w = w /\ r.data = <<>>

\* C37: while the config record is not initialized, RegisterName,
\* SetRegistrationFee, ChangeProgramOwner, AcceptProgramOwnership, Withdraw
\* and the three Get reads fail, whoever calls them and with whatever
\* arguments, and change no record and no balance.
C37_NothingBeforeInitialize ==
    ~ConfigFlag =>
        /\ \A c \in Callers :
              /\ \A na \in NameSlots, aa \in AddrSlots, sys \in BOOLEAN,
                    name \in Names \cup RegexNames :
                     Refused(World, process_register_name(World, c[1], c[2], na, aa,
                                                          sys, name, now))
              /\ \A fee \in Fees :
                    Refused(World, process_set_registration_fee(World, c[1], c[2], fee))
              /\ \A new_owner \in AnyKey :
                    Refused(World, process_change_program_owner(World, c[1], c[2],
                                                                new_owner))
              /\ Refused(World, process_accept_program_ownership(World, c[1], c[2]))
              /\ Refused(World, process_withdraw(World, c[1], c[2]))
        /\ Refused(World, process_get_contract_owner(World))
        /\ Refused(World, process_get_registration_fee(World))
        /\ Refused(World, process_get_pending_contract_owner(World))

\* C37 (witness): the config account holds lamports and is not initialized;
\* a signed Withdraw and a signed RegisterName of a valid name are refused for
\* the missing config, and the same Withdraw succeeds once the caller has
\* initialized the config.
C37_WithdrawBeforeInitialize ==
    /\ ~ConfigFlag /\ configLamports > 0
    /\ \E k \in Keys :
          /\ DoWithdraw(World, k).err = "UninitializedAccount"
          /\ DoRegister(World, k, 1, 1, Name_a1, now).err = "UninitializedAccount"
          /\ process_instruction(World, process_get_contract_owner(World)).err
                 = "UninitializedAccount"
          /\ DoWithdraw(DoInitialize(World, k, 0).w, k).err = "Ok"

\* C38: a RenameName to the name the caller holds (old and new name record
\* are the same record), once the cooldown is over, fails with NameTaken and
\* leaves the name record and the reverse record as they were: the caller
\* still holds the name.
C38_RenameToOwnNameTaken ==
    \A c \in Keys, na \in NameSlots, aa \in AddrSlots, name \in RegexNames :
        CanRegister(World, c, na, aa) =>
            \A r1 \in {DoRegister(World, c, na, aa, name, now)} :
             \A r2 \in {DoRename(r1.w, c, na, na, aa, name, now)} :
                 /\ r1.err = "Ok"
                 /\ r2.err = "NameTaken"
                 /\ r2.w = r1.w
                 /\ NameOf(r2.w, na).is_initialized /\ NameOf(r2.w, na).owner = c
                 /\ AddressOf(r2.w, aa).is_initialized /\ AddressOf(r2.w, aa).name = name

\* Record values to write: every flag, owner, address and time of the model,
\* names of 0, 3 and 32 bytes
RoundTripNames == {<<>>, Name_a1, Name_full}
NameRecords ==
    [is_initialized : BOOLEAN, owner : AnyKey, name : RoundTripNames,
     address : AnyKey, cooldown_until : 0..MaxTime]
AddressRecords == [is_initialized : BOOLEAN, name : RoundTripNames]
PendingRecords == [is_initialized : BOOLEAN, new_address : AnyKey]
ConfigRecords ==
    [is_initialized : BOOLEAN, owner : AnyKey, pending_owner : AnyKey,
     registration_fee : Fees]

\* C39: for each of the four record kinds and every record value (names of 0
\* to 32 bytes), writing the value into a slot of the kind's LEN and reading
\* the slot back succeeds and gives the value written, also when the slot
\* held a record with a longer name before.
C39_WriteThenRead ==
    /\ \A na \in NameSlots, r \in NameRecords, longer \in NameRecords :
          /\ NameAccount_unpack_unchecked(NameAccount_pack(r, nameSlot[na]).v)
                 = Res("Ok", r)
          /\ Len(longer.name) > Len(r.name) =>
                NameAccount_unpack_unchecked(
                    NameAccount_pack(r, NameAccount_pack(longer, nameSlot[na]).v).v)
                    = Res("Ok", r)
    /\ \A aa \in AddrSlots, r \in AddressRecords, longer \in AddressRecords :
          /\ AddressAccount_unpack_unchecked(AddressAccount_pack(r, addrSlot[aa]).v)
                 = Res("Ok", r)
          /\ Len(longer.name) > Len(r.name) =>
                AddressAccount_unpack_unchecked(
                    AddressAccount_pack(r, AddressAccount_pack(longer, addrSlot[aa]).v).v)
                    = Res("Ok", r)
    /\ \A pa \in PendSlots, r \in PendingRecords :
          PendingUpdateAccount_unpack_unchecked(
              PendingUpdateAccount_pack(r, pendSlot[pa]).v) = Res("Ok", r)
    /\ \A r \in ConfigRecords :
          ProgramConfig_unpack_unchecked(ProgramConfig_pack(r, config).v) = Res("Ok", r)

====
